---- MODULE Spec2Model ----
(***************************************************************************)
(* Model of the spoken-dialogue annotation tool: the App component         *)
(* (src/src/App.tsx), the WaveformComponent (first component of            *)
(* src/unnamed/part_001) and the slot editor (src/unnamed/part_002,        *)
(* src/src/components/SlotIntentContainer.tsx), and the persistence of     *)
(* annotations (src/src/utils/fileUtils.ts).                               *)
(*                                                                         *)
(* Times are integers counting ticks of 0.001 s, the tolerance of the code: *)
(* two times are "within the tolerance" (< 0.001) when they are equal, and *)
(* a marker "has moved" (> 0.001) when it is two ticks or more away.       *)
(* Indices are 0-based as in the code; sequence s holds index i at s[i+1]. *)
(***************************************************************************)
EXTENDS Integers, Sequences, FiniteSets, TLC

\* ------------------------------------------------------------------ bounds
MaxTime == 2      \* length of the recording, in ticks
MaxTurns == 2     \* turns a session may hold before the marking of a new one is cut off
MaxLoaded == 3    \* turns of a persisted annotation in the turn-list specifications
MaxConversations == 2   \* conversations of the directory
MaxInFlight == 2  \* navigation handlers that wait at the same time, where they overlap

\* 0.001 s (part_001:305, 309, 357, 358, 504, 505), in ticks
Tol == 1

Times == 0 .. MaxTime
None == -1
\* The indices a turn can have in a list of the modelled sizes.
TurnIndices == 0 .. (IF MaxLoaded > MaxTurns THEN MaxLoaded ELSE MaxTurns) - 1
Infinity == MaxTime + 1

IntentNames == <<"greet", "ask", "confirm", "bye">>
SlotKeys == {"a", "b"}
SlotVals == {"1", "2"}

VARIABLES
    turns,                    \* currentAnnotation.turns
    dialogueSlots,            \* currentAnnotation.dialogueSlots
    currentTurnIndex,         \* App state currentTurnIndex
    isAnnotationMode,         \* WaveformComponent state
    hasUnsavedMarkerChanges,  \* WaveformComponent state
    tempStart,                \* time of the WaveSurfer marker labelled provisional start, or None
    tempEnd,                  \* time of the WaveSurfer marker labelled provisional end, or None
    mk,                       \* times of the WaveSurfer markers of the committed segments
    editingSlots,             \* SlotIntentEditor state of the turn editors: {<<turn, key>>}
    last,                     \* history: the handler that ran last and what it reported
    currentAnnotationId,      \* <<>> while currentAnnotation is null, else <<its conversation>>
    conversations,            \* App state conversations
    currentIndex,             \* App state currentIndex
    annotations,              \* App state annotations
    directoryHandle,          \* whether App state directoryHandle is set
    showSaveDialog,           \* App state showSaveDialog
    notification,             \* variant of the snackbar raised last, or "none"
    tasks,                    \* the async handler that is waiting, with what it closed over
    disk,                     \* the directory: its conversations and the files of .cache
    dialogueEditingSlots      \* SlotIntentEditor state of the dialogue-level editor: {key}

\* The state of the waveform and of the annotation being edited.
engineVars == <<turns, dialogueSlots, currentTurnIndex, isAnnotationMode,
                hasUnsavedMarkerChanges, tempStart, tempEnd, mk, editingSlots>>

\* The state of App around it, and the file system.
appVars == <<currentAnnotationId, conversations, currentIndex, annotations,
             directoryHandle, showSaveDialog, notification, tasks, disk,
             dialogueEditingSlots>>

vars == <<engineVars, last, appVars>>

\* ----------------------------------------------------------------- helpers
Abs(x) == IF x < 0 THEN -x ELSE x
Min(a, b) == IF a < b THEN a ELSE b
Max(a, b) == IF a > b THEN a ELSE b

Segment(s, e) == [start |-> s, end |-> e]
Slot(k, v) == [key |-> k, value |-> v]
Turn(seg, i, sl) == [start |-> seg.start, end |-> seg.end, intent |-> i, slots |-> sl]

\* segments prop of WaveformComponent: turns.map(turn => turn.segments[0])
SegmentsOf(ts) == [i \in 1 .. Len(ts) |-> Segment(ts[i].start, ts[i].end)]

\* Array.prototype.splice(index, 1) / filter((_, i) => i !== index)
RemoveAt(s, index) ==
    [i \in 1 .. Len(s) - 1 |-> IF i <= index THEN s[i] ELSE s[i + 1]]

\* History of the last handler: its name and, for the handlers whose result
\* depends on them, its argument and the selection it found; for a commit also
\* whether it inserted a segment, where, the index it reported, whether a
\* boundary had moved and whether the sort changed the order.
History(op, arg, ins, p, rep, moved, resorted) ==
    [op |-> op, arg |-> arg, preSel |-> currentTurnIndex, ins |-> ins, p |-> p,
     rep |-> rep, moved |-> moved, resorted |-> resorted]

Did(op) ==
    [op |-> op, arg |-> -1, preSel |-> -1, ins |-> FALSE, p |-> -1,
     rep |-> -1, moved |-> FALSE, resorted |-> FALSE]

\* What the handlers leave that no property below asks about.
Other == Did("other")

\* ------------------------------------------------------------- persistence
Conversation(c, v) == [customerId |-> c, conversationId |-> v]

\* part_000:30-35, DialogueAnnotation
Annotation(conv, ts, ds) ==
    [customerId |-> conv.customerId, conversationId |-> conv.conversationId,
     turns |-> ts, dialogueSlots |-> ds]

\* fileUtils.ts:152, 174: `${customerId}_${conversationId}.json`
FileName(customerId, conversationId) == customerId \o "_" \o conversationId \o ".json"

\* JSON.stringify of an annotation (fileUtils.ts:157): the text of an object,
\* its properties in order, each a name with the text of its value.
JSONStringify(annotation) ==
    << <<"customerId", annotation.customerId>>,
       <<"conversationId", annotation.conversationId>>,
       <<"turns", annotation.turns>>,
       <<"dialogueSlots", annotation.dialogueSlots>> >>

\* The text of a file that was created and never written.
EmptyText == <<>>

\* JSON.parse throws on a text that is no JSON value.
Parses(text) == text # EmptyText

\* parsed[name] || [] (fileUtils.ts:184-185)
PropertyOrEmpty(text, name) ==
    IF \E i \in 1 .. Len(text) : text[i][1] = name
    THEN text[CHOOSE i \in 1 .. Len(text) : text[i][1] = name][2]
    ELSE <<>>

\* fileUtils.ts:136-164, the .cache files after a save that succeeds
WriteFile(cache, name, text) ==
    [n \in DOMAIN cache \cup {name} |-> IF n = name THEN text ELSE cache[n]]

\* A save that names the file by the conversationId alone.
saveAnnotationByConversation(customerId, conversationId, annotationData, cache) ==
    WriteFile(cache, conversationId \o ".json", JSONStringify(annotationData))

saveAnnotation(customerId, conversationId, annotationData, cache) ==
    WriteFile(cache, FileName(customerId, conversationId), JSONStringify(annotationData))

\* fileUtils.ts:166-194: <<>> for null, else <<the annotation>>
loadAnnotation(customerId, conversationId, cache) ==
    LET filename == FileName(customerId, conversationId)
    IN IF filename \in DOMAIN cache /\ Parses(cache[filename])
       THEN <<Annotation(Conversation(customerId, conversationId),
                         PropertyOrEmpty(cache[filename], "turns"),
                         PropertyOrEmpty(cache[filename], "dialogueSlots"))>>
       ELSE <<>>

\* annotations.find / findIndex by customerId and conversationId
\* (App.tsx:150-153, 559-562): the 1-based position, 0 if there is none
FindAnnotation(anns, conv) ==
    IF \E i \in 1 .. Len(anns) :
          anns[i].customerId = conv.customerId /\ anns[i].conversationId = conv.conversationId
    THEN CHOOSE i \in 1 .. Len(anns) :
            /\ anns[i].customerId = conv.customerId /\ anns[i].conversationId = conv.conversationId
            /\ \A j \in 1 .. i - 1 :
                  ~(anns[j].customerId = conv.customerId
                    /\ anns[j].conversationId = conv.conversationId)
    ELSE 0

\* currentAnnotation, when it is not null
CurrentAnnotation == Annotation(currentAnnotationId[1], turns, dialogueSlots)

\* ------------------------------------------------- WaveSurfer re-creation
\* The effect at part_001:513-648 destroys and re-creates the WaveSurfer
\* instance whenever App re-renders (segments, onMarkerSet and onMarkerSelect
\* are new objects on every App render), isAnnotationMode changes or
\* tempMarkers is set; on 'ready' updateMarkersDisplay draws one start and one
\* end marker per committed segment. tempMarkers is only ever set to {}, so
\* no provisional marker is drawn again.
MarkersOf(ts) == SegmentsOf(ts)

\* --------------------------------------------------------- commit algorithm
\* part_001:299-315: a marker further than the tolerance from its segment's
\* boundary overwrites that boundary.
\* A start boundary that counts as moved at any distance from its marker.
MovedStartAtAll(seg, m) == seg.start # m.start

MovedStart(seg, m) == Abs(seg.start - m.start) > Tol
MovedEnd(seg, m) == Abs(seg.end - m.end) > Tol

UpdateExisting(segs, markers) ==
    [i \in 1 .. Len(segs) |->
        Segment(IF MovedStart(segs[i], markers[i]) THEN markers[i].start ELSE segs[i].start,
                IF MovedEnd(segs[i], markers[i]) THEN markers[i].end ELSE segs[i].end)]

AnyMoved(segs, markers) ==
    \E i \in 1 .. Len(segs) : MovedStart(segs[i], markers[i]) \/ MovedEnd(segs[i], markers[i])

\* The same search with >= for >: the new segment goes before the segments
\* that share its start.
FindInsertIndexAtEqual(segs, s) ==
    IF \E i \in 1 .. Len(segs) : segs[i].start >= s
    THEN (CHOOSE i \in 1 .. Len(segs) :
            /\ segs[i].start >= s
            /\ \A j \in 1 .. i - 1 : ~(segs[j].start >= s)) - 1
    ELSE -1

\* part_001:328: findIndex(segment => segment.start > newSegment.start), -1 if none
FindInsertIndex(segs, s) ==
    IF \E i \in 1 .. Len(segs) : segs[i].start > s
    THEN (CHOOSE i \in 1 .. Len(segs) :
            /\ segs[i].start > s
            /\ \A j \in 1 .. i - 1 : ~(segs[j].start > s)) - 1
    ELSE -1

\* part_001:331-337
InsertSegment(segs, insertIndex, newSegment) ==
    IF insertIndex = -1
    THEN Append(segs, newSegment)
    ELSE SubSeq(segs, 1, insertIndex) \o <<newSegment>>
            \o SubSeq(segs, insertIndex + 1, Len(segs))

\* part_001:345: sort((a, b) => a.start - b.start); Array.prototype.sort is stable
RECURSIVE SortByStart(_)
InsertSorted(sorted, x) ==
    LET k == Cardinality({i \in 1 .. Len(sorted) : sorted[i].start <= x.start})
    IN SubSeq(sorted, 1, k) \o <<x>> \o SubSeq(sorted, k + 1, Len(sorted))
SortByStart(segs) ==
    IF Len(segs) = 0 THEN <<>>
    ELSE InsertSorted(SortByStart(SubSeq(segs, 1, Len(segs) - 1)), segs[Len(segs)])

\* part_001:356-359: findIndex by approximate match of start and end, -1 if none
FindNewIndex(segs, s, e) ==
    IF \E i \in 1 .. Len(segs) : Abs(segs[i].start - s) < Tol /\ Abs(segs[i].end - e) < Tol
    THEN (CHOOSE i \in 1 .. Len(segs) :
            /\ Abs(segs[i].start - s) < Tol /\ Abs(segs[i].end - e) < Tol
            /\ \A j \in 1 .. i - 1 :
                  ~(Abs(segs[j].start - s) < Tol /\ Abs(segs[j].end - e) < Tol)) - 1
    ELSE -1

\* App.tsx:212-244: turn i of the new list is the old turn i (or an empty turn)
\* with its segment replaced by segment i.
handleMarkerSet(ts, segs) ==
    [i \in 1 .. Len(segs) |->
        IF i <= Len(ts)
        THEN Turn(segs[i], ts[i].intent, ts[i].slots)
        ELSE Turn(segs[i], "", <<>>)]

\* ------------------------------------------------------- dialogue-level slots
\* App.tsx:513-516 (and 278-281): flatMap of the turns' slots, then keep the
\* entries that are the first with their (key, value).
RECURSIVE FlatSlots(_)
FlatSlots(ts) ==
    IF Len(ts) = 0 THEN <<>>
    ELSE FlatSlots(SubSeq(ts, 1, Len(ts) - 1)) \o ts[Len(ts)].slots

FirstIndexOf(self, slot) ==
    CHOOSE i \in 1 .. Len(self) :
        /\ self[i].key = slot.key /\ self[i].value = slot.value
        /\ \A j \in 1 .. i - 1 : ~(self[j].key = slot.key /\ self[j].value = slot.value)

RECURSIVE FilterFirst(_, _)
FilterFirst(self, n) ==
    IF n = 0 THEN <<>>
    ELSE IF FirstIndexOf(self, self[n]) = n
         THEN Append(FilterFirst(self, n - 1), self[n])
         ELSE FilterFirst(self, n - 1)

\* The same filter keeping the first entry of each key, whatever its value.
RECURSIVE FilterFirstKey(_, _)
FilterFirstKey(self, n) ==
    IF n = 0 THEN <<>>
    ELSE IF \E j \in 1 .. n - 1 : self[j].key = self[n].key
         THEN FilterFirstKey(self, n - 1)
         ELSE Append(FilterFirstKey(self, n - 1), self[n])

UniqueByKey(ts) == FilterFirstKey(FlatSlots(ts), Len(FlatSlots(ts)))

UniqueDialogueSlots(ts) == FilterFirst(FlatSlots(ts), Len(FlatSlots(ts)))

\* ------------------------------------------------------------------- Init
\* A conversation opens with an empty annotation or with the annotation that
\* was persisted for it (App.tsx:150-166): well-formed segments in ascending
\* start order, as every save of a well-formed session leaves them.
WellFormedSegments == {sg \in [start : Times, end : Times] : sg.start < sg.end}

IsAscending(segs) == \A i \in 1 .. Len(segs) - 1 : segs[i].start <= segs[i + 1].start

LoadedIntent(i) == IntentNames[((i - 1) % Len(IntentNames)) + 1]
LoadedSlots(i) ==
    IF i = 1 THEN <<Slot("a", "1")>>
    ELSE IF i = 2 THEN <<Slot("a", "1"), Slot("b", "2")>>
    ELSE <<Slot("a", "2")>>

\* The persisted annotations of at most n turns.
LoadedTurns(n) ==
    UNION {
        {[i \in 1 .. m |-> Turn(segs[i], LoadedIntent(i), LoadedSlots(i))] :
            segs \in {x \in [1 .. m -> WellFormedSegments] : IsAscending(x)}}
        : m \in 0 .. n}

NoHistory == Did("init")

\* The directory of the sessions that follow one conversation: the second of
\* two conversations is open, reached by a navigation, with ts persisted and
\* in the annotations that were loaded with the directory.
SessionConversations == <<Conversation("a", "b"), Conversation("a", "c")>>

OpenedApp(ts) ==
    LET conv == SessionConversations[2]
        saved == Annotation(conv, ts, UniqueDialogueSlots(ts))
    IN /\ currentAnnotationId = <<conv>>
       /\ conversations = SessionConversations
       /\ currentIndex = 1
       /\ annotations = IF ts = <<>> THEN <<>> ELSE <<saved>>
       /\ directoryHandle = TRUE
       /\ showSaveDialog = FALSE
       /\ notification = "none"
       /\ tasks = <<>>
       /\ dialogueEditingSlots = {}
       /\ disk = [conversations |-> SessionConversations,
                  cache |-> IF ts = <<>> THEN <<>>
                            ELSE saveAnnotation(conv.customerId, conv.conversationId, saved, <<>>)]

\* The state after a conversation is opened with the turns ts.
Opened(ts) ==
    /\ OpenedApp(ts)
    /\ turns = ts
    /\ dialogueSlots = UniqueDialogueSlots(ts)
    /\ currentTurnIndex = 0
    /\ isAnnotationMode = FALSE
    /\ hasUnsavedMarkerChanges = FALSE
    /\ tempStart = None
    /\ tempEnd = None
    /\ mk = MarkersOf(ts)
    /\ editingSlots = {}
    /\ last = NoHistory

\* A conversation with no persisted annotation (App.tsx:160-165).
Init == Opened(<<>>)

\* A conversation with a persisted annotation (App.tsx:156-158).
InitLoaded == \E ts \in LoadedTurns(MaxTurns) : Opened(ts)
InitTurnList == \E ts \in LoadedTurns(MaxLoaded) : Opened(ts)

\* ------------------------------------------------------- waveform handlers
\* part_001:650-654
toggleAnnotationMode ==
    /\ isAnnotationMode' = ~isAnnotationMode
    /\ hasUnsavedMarkerChanges' = FALSE
    /\ tempStart' = None
    /\ tempEnd' = None
    /\ mk' = MarkersOf(turns)
    /\ last' = Other
    /\ UNCHANGED <<turns, dialogueSlots, currentTurnIndex, editingSlots>>

\* part_001:371-431 (handleClick) and 218-280 (handleAddMarkerAtCurrentTime)
\* share this body.
PlaceMarker(time) ==
    /\ isAnnotationMode
    /\ Len(turns) < MaxTurns
    /\ IF tempStart = None
       THEN tempStart' = time /\ tempEnd' = tempEnd
       ELSE IF tempEnd = None /\ time > tempStart
            THEN tempEnd' = time /\ tempStart' = tempStart
            ELSE UNCHANGED <<tempStart, tempEnd>>
    /\ hasUnsavedMarkerChanges' = (tempStart' # None /\ tempEnd' # None)
    /\ UNCHANGED <<turns, dialogueSlots, currentTurnIndex, isAnnotationMode, mk, editingSlots>>

handleClick ==
    \E time \in Times :
        /\ PlaceMarker(time)
        /\ last' = Other

handleAddMarkerAtCurrentTime ==
    \E time \in Times :
        /\ PlaceMarker(time)
        /\ last' = Other

\* part_001:438-444: the provisional marker being dragged is clamped against
\* the other one; "x || Infinity" and "x || 0" also take the default when the
\* other marker's time is 0.
ClampTempStart(time) ==
    Min(time, IF tempEnd = None \/ tempEnd = 0 THEN Infinity ELSE tempEnd)

ClampTempEnd(time) ==
    Max(time, IF tempStart = None \/ tempStart = 0 THEN 0 ELSE tempStart)

\* part_001:446-478: an existing marker is clamped against the committed
\* segment, not against the other marker of the pair.
ClampExistingStart(time, seg) == Min(time, seg.end)
ClampExistingEnd(time, seg) == Max(time, seg.start)

\* part_001:433-444, marker-drag of the provisional start marker
handleMarkerDragTempStart ==
    \E time \in Times :
        /\ tempStart # None
        /\ tempStart' = ClampTempStart(time)
        /\ last' = Other
        /\ UNCHANGED <<turns, dialogueSlots, currentTurnIndex, isAnnotationMode,
                       hasUnsavedMarkerChanges, tempEnd, mk, editingSlots>>

\* part_001:433-444, marker-drag of the provisional end marker
handleMarkerDragTempEnd ==
    \E time \in Times :
        /\ tempEnd # None
        /\ tempEnd' = ClampTempEnd(time)
        /\ last' = Other
        /\ UNCHANGED <<turns, dialogueSlots, currentTurnIndex, isAnnotationMode,
                       hasUnsavedMarkerChanges, tempStart, mk, editingSlots>>

\* The markers of committed segments are draggable in annotation mode only
\* (part_001:126, 148). marker-drag-start selects the marker's turn
\* (part_001:616-623), and selecting another turn re-creates the WaveSurfer
\* instance, so the marker that is being dragged belongs to the selected turn.
CanDragExisting(index) ==
    /\ isAnnotationMode
    /\ index = currentTurnIndex
    /\ index >= 0 /\ index < Len(turns)

\* part_001:446-478, marker-drag of a committed start marker
handleMarkerDragExistingStart ==
    \E index \in TurnIndices, time \in Times :
        /\ CanDragExisting(index)
        /\ mk' = [mk EXCEPT ![index + 1].start =
                      ClampExistingStart(time, SegmentsOf(turns)[index + 1])]
        /\ hasUnsavedMarkerChanges' = TRUE
        /\ last' = Other
        /\ UNCHANGED <<turns, dialogueSlots, currentTurnIndex, isAnnotationMode,
                       tempStart, tempEnd, editingSlots>>

\* part_001:446-478, marker-drag of a committed end marker
handleMarkerDragExistingEnd ==
    \E index \in TurnIndices, time \in Times :
        /\ CanDragExisting(index)
        /\ mk' = [mk EXCEPT ![index + 1].end =
                      ClampExistingEnd(time, SegmentsOf(turns)[index + 1])]
        /\ hasUnsavedMarkerChanges' = TRUE
        /\ last' = Other
        /\ UNCHANGED <<turns, dialogueSlots, currentTurnIndex, isAnnotationMode,
                       tempStart, tempEnd, editingSlots>>

\* part_001:481-511
handleMarkerDragEnd ==
    /\ isAnnotationMode
    /\ tempStart # None \/ Len(turns) > 0
    /\ hasUnsavedMarkerChanges' =
          (\/ hasUnsavedMarkerChanges
           \/ (tempStart # None /\ tempEnd # None)
           \/ AnyMoved(SegmentsOf(turns), mk))
    /\ last' = Other
    /\ UNCHANGED <<turns, dialogueSlots, currentTurnIndex, isAnnotationMode,
                   tempStart, tempEnd, mk, editingSlots>>

\* App.tsx:246-248; setting the index it already has re-renders nothing,
\* any other value re-renders App and with it re-creates the WaveSurfer
\* instance and remounts the turn editors.
SelectTurn(index) ==
    /\ currentTurnIndex' = index
    /\ IF index = currentTurnIndex
       THEN UNCHANGED <<tempStart, tempEnd, mk, editingSlots>>
       ELSE /\ tempStart' = None
            /\ tempEnd' = None
            /\ mk' = MarkersOf(turns)
            /\ editingSlots' = {}
    /\ UNCHANGED <<turns, dialogueSlots, isAnnotationMode, hasUnsavedMarkerChanges>>

\* App.tsx:465, click on a turn's header
handleMarkerSelect ==
    \E index \in TurnIndices :
        /\ index < Len(turns)
        /\ SelectTurn(index)
        /\ last' = Other

\* part_001:616-623, marker-click or marker-drag-start on a committed marker
handleMarkerDragStart ==
    \E index \in TurnIndices :
        /\ index < Len(turns)
        /\ SelectTurn(index)
        /\ last' = Other

\* ------------------------------------------------------------------ commit
HasTempPair == tempStart # None /\ tempEnd # None

\* part_001:321-341: the list after the boundary overwrites, with the new
\* segment inserted when both provisional markers exist
WithNewSegment(segs, markers) ==
    LET updatedSegments == UpdateExisting(segs, markers)
    IN IF HasTempPair
       THEN InsertSegment(updatedSegments,
                          FindInsertIndex(updatedSegments, tempStart),
                          Segment(tempStart, tempEnd))
       ELSE updatedSegments

\* The list without the sort of part_001:345.
CommittedSegmentsUnsorted(segs, markers) == WithNewSegment(segs, markers)

\* part_001:291-347: the list handed to onMarkerSet
CommittedSegments(segs, markers) == SortByStart(WithNewSegment(segs, markers))

\* The position at which the new segment is put before the sort.
InsertPosition(segs, markers) ==
    LET i == FindInsertIndex(UpdateExisting(segs, markers), tempStart)
    IN IF i = -1 THEN Len(segs) ELSE i

\* A selection that follows the selected turn across the insertion instead of
\* moving to the new segment.
ShiftedSelection(segs, markers) ==
    IF HasTempPair
    THEN IF currentTurnIndex >= InsertPosition(segs, markers)
         THEN currentTurnIndex + 1
         ELSE currentTurnIndex
    ELSE -1

\* part_001:355-363: the index handed to onMarkerSelect, -1 when none is
ReportedIndex(segs, markers) ==
    IF HasTempPair
    THEN FindNewIndex(CommittedSegments(segs, markers), tempStart, tempEnd)
    ELSE -1

\* A commit that leaves the provisional markers where they are.
handleConfirmKeepingTempMarkers ==
    LET segs == SegmentsOf(turns)
        hasChanges == AnyMoved(segs, mk) \/ HasTempPair
        newIndex == ReportedIndex(segs, mk)
    IN /\ isAnnotationMode
       /\ hasUnsavedMarkerChanges
       /\ IF hasChanges
          THEN /\ turns' = handleMarkerSet(turns, CommittedSegments(segs, mk))
               /\ hasUnsavedMarkerChanges' = FALSE
               /\ currentTurnIndex' = IF newIndex # -1 THEN newIndex ELSE currentTurnIndex
          ELSE UNCHANGED <<turns, hasUnsavedMarkerChanges, currentTurnIndex>>
       /\ mk' = MarkersOf(turns')
       /\ editingSlots' = {}
       /\ last' = History("commit", IF hasChanges THEN 1 ELSE 0, HasTempPair,
                          IF HasTempPair THEN InsertPosition(segs, mk) ELSE -1, newIndex,
                          AnyMoved(segs, mk),
                          CommittedSegments(segs, mk) # WithNewSegment(segs, mk))
       /\ UNCHANGED <<dialogueSlots, isAnnotationMode, tempStart, tempEnd>>

\* part_001:288-369, reached from the confirm button, which is rendered in
\* annotation mode and disabled while hasUnsavedMarkerChanges is false
\* (part_001:758, 776-779). Setting tempMarkers re-creates the WaveSurfer
\* instance on every path.
handleConfirmMarkerPositions ==
    LET segs == SegmentsOf(turns)
        hasChanges == AnyMoved(segs, mk) \/ HasTempPair
        newIndex == ReportedIndex(segs, mk)
    IN /\ isAnnotationMode
       /\ hasUnsavedMarkerChanges
       /\ IF hasChanges
          THEN /\ turns' = handleMarkerSet(turns, CommittedSegments(segs, mk))
               /\ hasUnsavedMarkerChanges' = FALSE
               /\ currentTurnIndex' = IF newIndex # -1 THEN newIndex ELSE currentTurnIndex
          ELSE UNCHANGED <<turns, hasUnsavedMarkerChanges, currentTurnIndex>>
       /\ tempStart' = None
       /\ tempEnd' = None
       /\ mk' = MarkersOf(turns')
       /\ editingSlots' = {}
       /\ last' = History("commit", IF hasChanges THEN 1 ELSE 0, HasTempPair,
                          IF HasTempPair THEN InsertPosition(segs, mk) ELSE -1, newIndex,
                          AnyMoved(segs, mk),
                          CommittedSegments(segs, mk) # WithNewSegment(segs, mk))
       /\ UNCHANGED <<dialogueSlots, isAnnotationMode>>

\* ------------------------------------------------------------- turn deletion
\* The selection without the decrement of App.tsx:416-418.
SelectionKeptAfterDelete(selected, index) ==
    IF selected = index THEN 0 ELSE selected

\* App.tsx:413-419
SelectionAfterDelete(selected, index) ==
    IF selected = index THEN 0
    ELSE IF selected > index THEN selected - 1
    ELSE selected

\* part_001:282-286, handleDeleteMarker: the segment is filtered out and the
\* turns are rebuilt by position from the remaining segments.
DeleteMarkerAt(ts, index) == handleMarkerSet(ts, RemoveAt(SegmentsOf(ts), index))

\* App.tsx:405-406: newTurns.splice(index, 1)
DeleteTurnAt(ts, index) == RemoveAt(ts, index)

\* A deletion that recomputes dialogueSlots from the remaining turns.
handleDeleteTurnRecomputing ==
    \E index \in TurnIndices :
        /\ index < Len(turns)
        /\ turns' = DeleteTurnAt(turns, index)
        /\ dialogueSlots' = UniqueDialogueSlots(turns')
        /\ currentTurnIndex' = SelectionAfterDelete(currentTurnIndex, index)
        /\ tempStart' = None
        /\ tempEnd' = None
        /\ mk' = MarkersOf(turns')
        /\ editingSlots' = {}
        /\ last' = History("delete", index, FALSE, -1, -1, FALSE, FALSE)
        /\ UNCHANGED <<isAnnotationMode, hasUnsavedMarkerChanges>>

\* App.tsx:402-420
handleDeleteTurn ==
    \E index \in TurnIndices :
        /\ index < Len(turns)
        /\ turns' = DeleteTurnAt(turns, index)
        /\ currentTurnIndex' = SelectionAfterDelete(currentTurnIndex, index)
        /\ tempStart' = None
        /\ tempEnd' = None
        /\ mk' = MarkersOf(turns')
        /\ editingSlots' = {}
        /\ last' = History("delete", index, FALSE, -1, -1, FALSE, FALSE)
        /\ UNCHANGED <<dialogueSlots, isAnnotationMode, hasUnsavedMarkerChanges>>

\* -------------------------------------------------------------- slot editor
\* The list handleConfirmSlot hands on with the new slot always pushed.
AppendSlot(slots, newSlot) == Append(slots, newSlot)

\* part_002:124-130: replace the entry with the same key, else append
UpsertSlot(slots, newSlot) ==
    IF \E i \in 1 .. Len(slots) : slots[i].key = newSlot.key
    THEN LET existingIndex ==
                 CHOOSE i \in 1 .. Len(slots) :
                     /\ slots[i].key = newSlot.key
                     /\ \A j \in 1 .. i - 1 : slots[j].key # newSlot.key
         IN [slots EXCEPT ![existingIndex] = newSlot]
    ELSE Append(slots, newSlot)

\* App.tsx:504-523, TurnList's onSlotsUpdate for the turn at index: the turn
\* takes the new slot list and dialogueSlots is recomputed from all turns.
\* App re-renders: TurnList is a new component type on every render of App, so
\* the turn editors remount and lose their editing slots.
OnSlotsUpdate(index, newSlots) ==
    /\ turns' = [turns EXCEPT ![index + 1].slots = newSlots]
    /\ dialogueSlots' = UniqueDialogueSlots(turns')
    /\ tempStart' = None
    /\ tempEnd' = None
    /\ mk' = MarkersOf(turns')
    /\ editingSlots' = {}
    /\ UNCHANGED <<currentTurnIndex, isAnnotationMode, hasUnsavedMarkerChanges>>

\* part_002:81-103
handleAddEditingSlot ==
    \E index \in TurnIndices, key \in SlotKeys :
        /\ index < Len(turns)
        /\ ~(\E i \in 1 .. Len(turns[index + 1].slots) : turns[index + 1].slots[i].key = key)
        /\ <<index, key>> \notin editingSlots
        /\ editingSlots' = editingSlots \cup {<<index, key>>}
        /\ last' = Other
        /\ UNCHANGED <<turns, dialogueSlots, currentTurnIndex, isAnnotationMode,
                       hasUnsavedMarkerChanges, tempStart, tempEnd, mk>>

\* part_002:113-143 with SlotIntentContainer.tsx:56-60; the value is the
\* trimmed, non-empty text of the editing slot
handleConfirmSlot ==
    \E e \in editingSlots, value \in SlotVals :
        /\ e[1] < Len(turns)
        /\ OnSlotsUpdate(e[1], UpsertSlot(turns[e[1] + 1].slots, Slot(e[2], value)))
        /\ last' = History("attachSlot", e[1], FALSE, -1, -1, FALSE, FALSE)

\* part_002:160-181 with SlotIntentContainer.tsx:42-49
handleRemoveSlot ==
    \E index \in TurnIndices, slotIndex \in 0 .. Cardinality(SlotKeys) - 1 :
        /\ index < Len(turns)
        /\ slotIndex < Len(turns[index + 1].slots)
        /\ OnSlotsUpdate(index, RemoveAt(turns[index + 1].slots, slotIndex))
        /\ last' = Did("removeSlot")

\* --------------------------------------------------------------------- Spec
Next ==
    /\ \/ toggleAnnotationMode
       \/ handleClick
       \/ handleAddMarkerAtCurrentTime
       \/ handleMarkerDragTempStart
       \/ handleMarkerDragTempEnd
       \/ handleMarkerDragExistingStart
       \/ handleMarkerDragExistingEnd
       \/ handleMarkerDragEnd
       \/ handleMarkerDragStart
       \/ handleMarkerSelect
       \/ handleConfirmMarkerPositions
       \/ handleDeleteTurn
    /\ UNCHANGED appVars

Spec == Init /\ [][Next]_vars

SpecLoaded == InitLoaded /\ [][Next]_vars

\* ----------------------------------------------------------- turn list only
NextTurnList ==
    /\ \/ toggleAnnotationMode
       \/ handleMarkerDragStart
       \/ handleMarkerSelect
       \/ handleDeleteTurn
    /\ UNCHANGED appVars

SpecTurnList == InitTurnList /\ [][NextTurnList]_vars

\* ------------------------------------------------------------- slot editing
\* A persisted annotation whose turns have segments and intents, no slots yet.
UnslottedTurns(n) ==
    [i \in 1 .. n |-> Turn(Segment(0, Min(i, MaxTime)), LoadedIntent(i), <<>>)]

InitSlots == \E n \in 0 .. MaxTurns : Opened(UnslottedTurns(n))

NextSlots ==
    /\ \/ handleAddEditingSlot
       \/ handleConfirmSlot
       \/ handleRemoveSlot
       \/ handleDeleteTurn
    /\ UNCHANGED appVars

SpecSlots == InitSlots /\ [][NextSlots]_vars

\* ----------------------------------------------- directory and navigation
\* Names of customer and conversation directories (fileUtils.ts:8, 12).
AllConversations ==
    <<Conversation("a_b", "c"), Conversation("a", "b_c"), Conversation("a", "c")>>

\* The conversations scanDirectory finds (fileUtils.ts:4-41): some of
\* AllConversations, in the order of that list.
Directories ==
    {[i \in 1 .. Len(pick) |-> AllConversations[pick[i]]] :
        pick \in UNION {{p \in [1 .. n -> 1 .. Len(AllConversations)] :
                            \A i \in 1 .. n - 1 : p[i] < p[i + 1]}
                        : n \in 1 .. MaxConversations}}

\* The annotation an earlier session saved for the i-th conversation.
PersistedTurns(i) ==
    [j \in 1 .. 2 - (i % 2) |-> Turn(Segment(j - 1, j), LoadedIntent(i + j), LoadedSlots(j))]

RECURSIVE PersistedCache(_, _, _)
PersistedCache(convs, saved, n) ==
    IF n = 0 THEN <<>>
    ELSE LET rest == PersistedCache(convs, saved, n - 1)
             ts == PersistedTurns(n)
         IN IF n \in saved
            THEN saveAnnotation(convs[n].customerId, convs[n].conversationId,
                                Annotation(convs[n], ts, UniqueDialogueSlots(ts)), rest)
            ELSE rest

Disks ==
    {[conversations |-> d, cache |-> PersistedCache(d, saved, Len(d))] :
        d \in Directories, saved \in SUBSET (1 .. MaxConversations)}

\* App before a directory is selected (App.tsx:59-74)
InitClosed ==
    /\ turns = <<>> /\ dialogueSlots = <<>> /\ currentTurnIndex = 0
    /\ isAnnotationMode = FALSE /\ hasUnsavedMarkerChanges = FALSE
    /\ tempStart = None /\ tempEnd = None /\ mk = <<>> /\ editingSlots = {}
    /\ last = NoHistory
    /\ currentAnnotationId = <<>>
    /\ conversations = <<>>
    /\ currentIndex = 0
    /\ annotations = <<>>
    /\ directoryHandle = FALSE
    /\ showSaveDialog = FALSE
    /\ notification = "none"
    /\ tasks = <<>>
    /\ dialogueEditingSlots = {}
    /\ disk \in Disks

\* An async handler waiting at an await, with the state it closed over. The
\* model follows one handler at a time: a directory is selected or a
\* navigation button clicked when no handler is waiting.
Task(op, pc, target, closedAnnotations, saved) ==
    [op |-> op, pc |-> pc, target |-> target, annotations |-> closedAnnotations,
     saved |-> saved]

Event(op, arg) == History(op, arg, FALSE, -1, -1, FALSE, FALSE)

\* App.tsx:115-126: the annotations found in .cache for the conversations
RECURSIVE LoadedAnnotations(_, _, _)
LoadedAnnotations(convs, cache, n) ==
    IF n = 0 THEN <<>>
    ELSE LoadedAnnotations(convs, cache, n - 1)
            \o loadAnnotation(convs[n].customerId, convs[n].conversationId, cache)

\* App.tsx:91-136, up to the awaits of loadConversation. loadConversation is
\* the function of the render in which the button was clicked: it reads the
\* annotations of that render, not those set at line 127.
handleDirectorySelect ==
    /\ ~directoryHandle
    /\ tasks = <<>>
    /\ directoryHandle' = TRUE
    /\ conversations' = disk.conversations
    /\ annotations' = LoadedAnnotations(disk.conversations, disk.cache, Len(disk.conversations))
    /\ currentIndex' = 0
    /\ tasks' = Append(tasks, Task("open", "loading", 0, annotations, <<>>))
    /\ last' = Event("open", 0)
    /\ UNCHANGED <<engineVars, dialogueEditingSlots, currentAnnotationId, showSaveDialog, notification, disk>>

\* A load that leaves the selection where it is, whatever it finds.
loadConversationKeepingSelection(conversation, closedAnnotations) ==
    LET k == FindAnnotation(closedAnnotations, conversation)
    IN /\ currentAnnotationId' = <<conversation>>
       /\ IF k > 0
          THEN /\ turns' = closedAnnotations[k].turns
               /\ dialogueSlots' = closedAnnotations[k].dialogueSlots
          ELSE /\ turns' = <<>>
               /\ dialogueSlots' = <<>>
       /\ tempStart' = None
       /\ tempEnd' = None
       /\ mk' = MarkersOf(turns')
       /\ editingSlots' = {}
       /\ UNCHANGED <<currentTurnIndex, isAnnotationMode, hasUnsavedMarkerChanges>>

\* App.tsx:139-170 after its awaits, for the conversation and the annotations
\* the handler closed over. A new audio file re-creates the WaveSurfer instance.
loadConversation(conversation, closedAnnotations) ==
    LET k == FindAnnotation(closedAnnotations, conversation)
    IN /\ currentAnnotationId' = <<conversation>>
       /\ IF k > 0
          THEN /\ turns' = closedAnnotations[k].turns
               /\ dialogueSlots' = closedAnnotations[k].dialogueSlots
               /\ currentTurnIndex' = 0
          ELSE /\ turns' = <<>>
               /\ dialogueSlots' = <<>>
               /\ UNCHANGED currentTurnIndex
       /\ tempStart' = None
       /\ tempEnd' = None
       /\ mk' = MarkersOf(turns')
       /\ editingSlots' = {}
       /\ UNCHANGED <<isAnnotationMode, hasUnsavedMarkerChanges>>

\* A navigation that does not wait for the save.
IndexWithoutWaiting(index, target, saving) == target

\* App.tsx:193-195, 204-206: the index while autoSaveAnnotation is awaited
IndexAfterClick(index, target, saving) == IF saving THEN index ELSE target

\* App.tsx:190-210 up to the first await that waits: with an annotation and a
\* directory, saveAnnotation of autoSaveAnnotation (App.tsx:550-555); without,
\* the file reads of loadConversation, the index being set before them.
Navigate(op, target) ==
    LET saving == currentAnnotationId # <<>> /\ directoryHandle
    IN /\ ~showSaveDialog
       /\ tasks = <<>>
       /\ tasks' = Append(tasks,
                          Task(op, IF saving THEN "saving" ELSE "loading", target, annotations,
                               IF saving THEN <<CurrentAnnotation>> ELSE <<>>))
       /\ currentIndex' = IndexAfterClick(currentIndex, target, saving)
       /\ last' = Event(op, target)
       /\ UNCHANGED <<engineVars, dialogueEditingSlots, currentAnnotationId, conversations, annotations,
                      directoryHandle, showSaveDialog, notification, disk>>

\* App.tsx:190-199
handleNext ==
    /\ currentIndex < Len(conversations) - 1
    /\ Navigate("next", currentIndex + 1)

\* App.tsx:201-210
handlePrevious ==
    /\ currentIndex > 0
    /\ Navigate("previous", currentIndex - 1)

\* App.tsx:558-573, setAnnotations of autoSaveAnnotation
UpsertAnnotation(prevAnnotations, annotation) ==
    LET index == FindAnnotation(prevAnnotations, annotation)
    IN IF index > 0
       THEN [prevAnnotations EXCEPT ![index] = annotation]
       ELSE Append(prevAnnotations, annotation)

\* The continuation of a navigation whose save has ended: the index is set
\* and loadConversation starts reading the files of the target.
Advance(i) ==
    /\ currentIndex' = tasks[i].target
    /\ tasks' = [tasks EXCEPT ![i].pc = "loading"]

\* App.tsx:547-580 with fileUtils.ts:136-159: saveAnnotation resolves
autoSaveSucceeds ==
    \E i \in 1 .. Len(tasks) :
        /\ tasks[i].pc = "saving"
        /\ LET saved == tasks[i].saved[1]
           IN /\ disk' = [disk EXCEPT !.cache =
                             saveAnnotation(saved.customerId, saved.conversationId, saved, @)]
              /\ annotations' = UpsertAnnotation(annotations, saved)
        /\ notification' = "success"
        /\ Advance(i)
        /\ last' = Event("saved", tasks[i].target)
        /\ UNCHANGED <<engineVars, dialogueEditingSlots, currentAnnotationId, conversations, directoryHandle,
                       showSaveDialog>>

\* A failing save that is recorded in annotations like one that succeeded.
autoSaveFailsRecorded ==
    \E i \in 1 .. Len(tasks) :
        /\ tasks[i].pc = "saving"
        /\ annotations' = UpsertAnnotation(annotations, tasks[i].saved[1])
        /\ notification' = "error"
        /\ Advance(i)
        /\ last' = Event("saveFailed", tasks[i].target)
        /\ UNCHANGED <<engineVars, dialogueEditingSlots, currentAnnotationId, conversations, directoryHandle,
                       showSaveDialog, disk>>

\* App.tsx:581-587 with fileUtils.ts:160-163: saveAnnotation rejects. A file
\* that getFileHandle created (fileUtils.ts:153) before the failure stays, empty.
autoSaveFails ==
    \E i \in 1 .. Len(tasks), created \in BOOLEAN :
        /\ tasks[i].pc = "saving"
        /\ LET saved == tasks[i].saved[1]
               filename == FileName(saved.customerId, saved.conversationId)
           IN disk' = [disk EXCEPT !.cache =
                          IF created /\ filename \notin DOMAIN @
                          THEN WriteFile(@, filename, EmptyText)
                          ELSE @]
        /\ notification' = "error"
        /\ Advance(i)
        /\ last' = Event("saveFailed", tasks[i].target)
        /\ UNCHANGED <<engineVars, dialogueEditingSlots, currentAnnotationId, conversations, annotations,
                       directoryHandle, showSaveDialog>>

\* App.tsx:131, 197, 208: loadConversation of a waiting handler resumes
loadCompletes ==
    \E i \in 1 .. Len(tasks) :
        /\ tasks[i].pc = "loading"
        /\ loadConversation(conversations[tasks[i].target + 1], tasks[i].annotations)
        /\ tasks' = RemoveAt(tasks, i - 1)
        /\ last' = Event("loaded", tasks[i].target)
        /\ UNCHANGED <<conversations, currentIndex, annotations, directoryHandle,
                       showSaveDialog, notification, disk, dialogueEditingSlots>>

\* App.tsx:845-853, the save button
handleSaveButton ==
    /\ currentAnnotationId # <<>>
    /\ ~showSaveDialog
    /\ showSaveDialog' = TRUE
    /\ last' = Event("save", currentIndex)
    /\ UNCHANGED <<engineVars, dialogueEditingSlots, currentAnnotationId, conversations, currentIndex, annotations,
                   directoryHandle, notification, tasks, disk>>

\* App.tsx:885-887, 912, closing the dialog
closeSaveDialog ==
    /\ showSaveDialog
    /\ showSaveDialog' = FALSE
    /\ last' = Other
    /\ UNCHANGED <<engineVars, dialogueEditingSlots, currentAnnotationId, conversations, currentIndex, annotations,
                   directoryHandle, notification, tasks, disk>>

NextApp ==
    \/ handleDirectorySelect
    \/ handleNext
    \/ handlePrevious
    \/ autoSaveSucceeds
    \/ autoSaveFails
    \/ loadCompletes
    \/ handleSaveButton
    \/ closeSaveDialog
    \/ handleDeleteTurn /\ ~showSaveDialog /\ UNCHANGED appVars

SpecApp == InitClosed /\ [][NextApp]_vars

\* -------------------------------------------------------------- properties
CommitInserted == last.op = "commit" /\ last.ins

\* The segment list segs with the pair (s, e) put immediately before the first
\* segment whose start is greater than s, at the end if there is none.
IsInsertionOf(new, old, s, e) ==
    LET k == IF \E i \in 1 .. Len(old) : old[i].start > s
             THEN (CHOOSE i \in 1 .. Len(old) :
                      old[i].start > s /\ \A j \in 1 .. i - 1 : old[j].start <= s) - 1
             ELSE Len(old)
    IN /\ Len(new) = Len(old) + 1
       /\ \A i \in 1 .. k : new[i] = old[i]
       /\ new[k + 1] = Segment(s, e)
       /\ \A i \in k + 1 .. Len(old) : new[i + 1] = old[i]

\* Index, in the final order, of the segment a commit inserts: the sort is
\* stable, so it follows the segments that start earlier and those with its
\* own start that stood before it.
NewSegmentIndex(updated, s) ==
    LET i == FindInsertIndex(updated, s)
        pos == IF i = -1 THEN Len(updated) ELSE i
    IN Cardinality({j \in 1 .. Len(updated) : updated[j].start < s})
       + Cardinality({j \in 1 .. pos : updated[j].start = s})

\* C1: a commit that inserts a provisional pair into a conversation that has
\* turns, no boundary having moved, leaves every old turn in the new list with
\* its segment, intent and slots, and the turn of the inserted segment has an
\* empty intent and no slots.
C1_TurnsKeepMetadata ==
    [][(/\ last'.op = "commit" /\ last'.ins /\ ~last'.moved
        /\ Len(turns) > 0)
       => /\ \A i \in 1 .. Len(turns) : \E j \in 1 .. Len(turns') : turns'[j] = turns[i]
          /\ LET n == NewSegmentIndex(SegmentsOf(turns), tempStart) + 1
             IN turns'[n].intent = "" /\ turns'[n].slots = <<>>]_vars

\* C2: every committed segment has start < end.
C2_StartBeforeEnd == \A i \in 1 .. Len(turns) : turns[i].start < turns[i].end

\* C3: the committed segments are in ascending order of start.
C3_Ascending ==
    \A i \in 1 .. Len(turns), j \in 1 .. Len(turns) :
        i < j => turns[i].start <= turns[j].start

C3_Witness ==
    /\ last.op = "commit" /\ last.moved /\ last.resorted
    /\ Len(turns) = 2 /\ turns[1].start < turns[2].start

C5_ReportedIsInserted ==
    [][(last'.op = "commit" /\ last'.ins)
       => last'.rep = NewSegmentIndex(UpdateExisting(SegmentsOf(turns), mk), tempStart)]_vars

\* C6: after every attachSlot, dialogueSlots is the list of the distinct
\* (key, value) pairs of all turns' slots in the order of their first
\* occurrence (turn by turn, slot by slot), each pair once.
SlotPositions(slot) ==
    {a \in (1 .. Len(turns)) \X (1 .. Cardinality(SlotKeys)) :
        a[2] <= Len(turns[a[1]].slots) /\ turns[a[1]].slots[a[2]] = slot}

Precedes(a, b) == a[1] < b[1] \/ (a[1] = b[1] /\ a[2] < b[2])

FirstPosition(slot) ==
    CHOOSE a \in SlotPositions(slot) : \A b \in SlotPositions(slot) : a = b \/ Precedes(a, b)

C6_DialogueSlotsAreDistinctPairs ==
    last.op = "attachSlot" =>
        /\ \A i \in 1 .. Len(dialogueSlots), j \in 1 .. Len(dialogueSlots) :
              i # j => dialogueSlots[i] # dialogueSlots[j]
        /\ {dialogueSlots[i] : i \in 1 .. Len(dialogueSlots)}
              = UNION {{turns[t].slots[k] : k \in 1 .. Len(turns[t].slots)} : t \in 1 .. Len(turns)}
        /\ \A i \in 1 .. Len(dialogueSlots), j \in 1 .. Len(dialogueSlots) :
              i < j => Precedes(FirstPosition(dialogueSlots[i]), FirstPosition(dialogueSlots[j]))

C6_Witness ==
    /\ last.op = "attachSlot" /\ last.arg = 1
    /\ Len(turns) = 2
    /\ turns[1].slots = <<Slot("a", "1"), Slot("b", "1")>>
    /\ turns[2].slots = <<Slot("b", "1"), Slot("a", "2")>>
    /\ dialogueSlots = <<Slot("a", "1"), Slot("b", "1"), Slot("a", "2")>>

\* C7: deleting the turn at index k removes that turn with its segment and
\* nothing else: the turns before k and after k keep segment, intent, slots
\* and order, and the markers drawn are those of the remaining turns.
C7_DeleteRemovesExactlyOneTurn ==
    [][last'.op = "delete"
       => LET k == last'.arg + 1
          IN /\ Len(turns') = Len(turns) - 1
             /\ \A i \in 1 .. k - 1 : turns'[i] = turns[i]
             /\ \A i \in k .. Len(turns') : turns'[i] = turns[i + 1]
             /\ Len(mk') = Len(turns')
             /\ \A i \in 1 .. Len(turns') :
                   mk'[i].start = turns'[i].start /\ mk'[i].end = turns'[i].end]_vars

C7_Witness ==
    /\ last.op = "delete" /\ last.arg = 0
    /\ Len(turns) = 2
    /\ turns[1].intent = LoadedIntent(2) /\ turns[1].slots = LoadedSlots(2)
    /\ turns[2].intent = LoadedIntent(3) /\ turns[2].slots = LoadedSlots(3)

\* C8: after the turn at position p is deleted the selected index is 0 if it
\* was p, one less if it was greater than p, and the same if it was less.
C8_SelectionAfterDelete ==
    last.op = "delete" =>
        currentTurnIndex =
            IF last.preSel = last.arg THEN 0
            ELSE IF last.preSel > last.arg THEN last.preSel - 1
            ELSE last.preSel

C8_Witness ==
    last.op = "delete" /\ last.preSel = 2 /\ last.arg = 0 /\ currentTurnIndex = 1

\* C9 as stated: after a commit that inserts a segment at position p among
\* existing turns, the selected index is one more than before if it was >= p
\* and the same otherwise.
C9_SelectionShiftsOnInsert ==
    (CommitInserted /\ Len(turns) >= 2) =>
        currentTurnIndex = IF last.preSel >= last.p THEN last.preSel + 1 ELSE last.preSel

\* C9 amended: after a commit that inserts a segment, the selected index is
\* that of the first segment in the final order whose start and end are within
\* the tolerance of the provisional pair, whatever was selected before.
C9_SelectionMovesToReported ==
    [][(last'.op = "commit" /\ last'.ins)
       => LET n == currentTurnIndex' + 1
              Matches(i) == /\ Abs(turns'[i].start - tempStart) < Tol
                            /\ Abs(turns'[i].end - tempEnd) < Tol
          IN /\ n \in 1 .. Len(turns')
             /\ Matches(n)
             /\ \A j \in 1 .. n - 1 : ~Matches(j)]_vars

C9_Witness ==
    /\ CommitInserted /\ last.preSel = 0 /\ last.p = 1
    /\ Len(turns) = 2 /\ currentTurnIndex = 1

\* C10: with a provisional start marker and no end marker, a placement at a
\* time <= start changes neither the provisional pair, the committed turns,
\* the selection nor hasUnsavedMarkerChanges.
C10_RejectedPlacementChangesNothing ==
    [][(\E time \in Times :
            /\ tempStart # None /\ tempEnd = None /\ time <= tempStart
            /\ PlaceMarker(time))
       => UNCHANGED <<tempStart, tempEnd, turns, currentTurnIndex, hasUnsavedMarkerChanges>>]_vars

\* C11: a commit with no provisional pair (none, or a start marker only) and
\* no boundary marker further than the tolerance from its boundary leaves the
\* turns with their segments and the selection as they were; it ends with no
\* provisional marker and every marker on its boundary, which is again such a
\* state, so that repeating the commit gives the same state.
C11_CommitWithoutChangesIsNoOp ==
    [][(/\ last'.op = "commit"
        /\ tempStart = None \/ tempEnd = None
        /\ \A i \in 1 .. Len(turns) :
              /\ Abs(turns[i].start - mk[i].start) <= Tol
              /\ Abs(turns[i].end - mk[i].end) <= Tol)
       => /\ UNCHANGED <<turns, currentTurnIndex, dialogueSlots,
                         hasUnsavedMarkerChanges, isAnnotationMode>>
          /\ tempStart' = None /\ tempEnd' = None
          /\ Len(mk') = Len(turns)
          /\ \A i \in 1 .. Len(turns) :
                mk'[i].start = turns[i].start /\ mk'[i].end = turns[i].end]_vars

C11_Witness ==
    /\ last.op = "commit" /\ last.arg = 0
    /\ Len(turns) = 2 /\ hasUnsavedMarkerChanges

\* C12: a commit with a provisional pair whose end is not after its start
\* inserts nothing and leaves the committed segments as they were.
C12_InvalidPairIsRejected ==
    [][(last'.op = "commit" /\ tempStart # None /\ tempEnd # None /\ tempEnd <= tempStart)
       => SegmentsOf(turns') = SegmentsOf(turns)]_vars

\* C13: while both provisional markers are placed, a drag of either of them
\* leaves the start strictly before the end.
C13_DraggedPairStaysStrict ==
    [][((handleMarkerDragTempStart \/ handleMarkerDragTempEnd)
        /\ tempStart # None /\ tempEnd # None)
       => tempStart' < tempEnd']_vars

SaveInFlight == tasks # <<>> /\ tasks[1].pc = "saving"

C15_FailedSaveDoesNotBlock ==
    [][last'.op = "saveFailed"
       => /\ notification' = "error"
          /\ annotations' = annotations
          /\ currentIndex' = tasks[1].target
          /\ tasks' # <<>> /\ tasks'[1].pc = "loading" /\ tasks'[1].target = tasks[1].target]_vars

C15_Witness ==
    /\ last.op = "saveFailed" /\ notification = "error"
    /\ currentIndex = 1 /\ currentAnnotationId = <<conversations[1]>>
    /\ FindAnnotation(annotations, conversations[1]) = 0

\* C16: after a save that succeeds, a load with the same customerId and
\* conversationId returns the annotation that was saved: the same
\* customerId, conversationId, turns and dialogueSlots.
C16_SaveThenLoad ==
    [][last'.op = "saved"
       => LET saved == tasks[1].saved[1]
              loaded == loadAnnotation(saved.customerId, saved.conversationId, disk'.cache)
          IN /\ Len(loaded) = 1
             /\ loaded[1].customerId = saved.customerId
             /\ loaded[1].conversationId = saved.conversationId
             /\ loaded[1].turns = saved.turns
             /\ loaded[1].dialogueSlots = saved.dialogueSlots]_vars

C16_Witness ==
    /\ last.op = "saved"
    /\ \E i \in 1 .. Len(annotations) :
          /\ annotations[i].turns # <<>>
          /\ annotations[i].dialogueSlots # <<>>
          /\ loadAnnotation(annotations[i].customerId, annotations[i].conversationId,
                            disk.cache) = <<annotations[i]>>

\* C17: a save under one (customerId, conversationId) leaves what a load
\* returns for every other pair as it was.
C17_SaveTouchesOnePair ==
    [][last'.op = "saved"
       => \A i \in 1 .. Len(AllConversations) :
             LET other == AllConversations[i]
                 saved == tasks[1].saved[1]
             IN (other.customerId # saved.customerId
                 \/ other.conversationId # saved.conversationId)
                => loadAnnotation(other.customerId, other.conversationId, disk'.cache)
                   = loadAnnotation(other.customerId, other.conversationId, disk.cache)]_vars

\* C18: when the directory is opened and .cache holds an annotation for the
\* first conversation, the annotation shown for it has the persisted turns
\* and dialogueSlots.
C18_OpenShowsPersisted ==
    [][(/\ last'.op = "loaded" /\ tasks # <<>> /\ tasks[1].op = "open"
        /\ loadAnnotation(conversations[1].customerId, conversations[1].conversationId,
                          disk.cache) # <<>>)
       => LET persisted == loadAnnotation(conversations[1].customerId,
                                          conversations[1].conversationId, disk.cache)[1]
          IN turns' = persisted.turns /\ dialogueSlots' = persisted.dialogueSlots]_vars

\* C19: after the save button is used, a load for the current conversation
\* returns the current turns and dialogueSlots.
C19_SaveButtonPersists ==
    [][last'.op = "save"
       => LET loaded == loadAnnotation(currentAnnotationId[1].customerId,
                                       currentAnnotationId[1].conversationId, disk'.cache)
          IN /\ Len(loaded) = 1
             /\ loaded[1].turns = turns'
             /\ loaded[1].dialogueSlots = dialogueSlots']_vars

\* C20: a provisional marker that is placed is removed by a commit or by a
\* toggle of the annotation mode only.
C20_ProvisionalMarkerStays ==
    [][((tempStart # None /\ tempStart' = None) \/ (tempEnd # None /\ tempEnd' = None))
       => (handleConfirmMarkerPositions \/ toggleAnnotationMode)]_vars

\* C21: in annotation mode the has-unsaved-marker-changes flag is true exactly
\* when both provisional markers are placed or the marker of some committed
\* boundary is further than the tolerance from that boundary.
C21_FlagTracksChanges ==
    isAnnotationMode =>
        (hasUnsavedMarkerChanges <=> (HasTempPair \/ AnyMoved(SegmentsOf(turns), mk)))

\* C22: removing a slot from a turn leaves dialogueSlots as it was, also when
\* no other turn holds the removed (key, value) pair.
C22_RemoveSlotKeepsDialogueSlots ==
    [][last'.op = "removeSlot" => dialogueSlots' = dialogueSlots]_vars

\* ----------------------------------------------- handleConfirmSlot alone
\* part_002:126, findIndex: the 0-based position of the key, -1 when absent
ExistingIndex(slots, key) ==
    IF \E i \in 1 .. Len(slots) : slots[i].key = key
    THEN (CHOOSE i \in 1 .. Len(slots) :
              /\ slots[i].key = key
              /\ \A j \in 1 .. i - 1 : slots[j].key # key) - 1
    ELSE -1

\* part_002:113-143 applied to any editing slot (key and trimmed, non-empty
\* value) of the editor of the turn at index, with TurnList's onSlotsUpdate.
attachSlot ==
    \E index \in TurnIndices, key \in SlotKeys, value \in SlotVals :
        /\ index < Len(turns)
        /\ OnSlotsUpdate(index, UpsertSlot(turns[index + 1].slots, Slot(key, value)))
        /\ last' = History("attachSlot", index, FALSE,
                           ExistingIndex(turns[index + 1].slots, key), -1, FALSE, FALSE)

NextAttach ==
    /\ \/ attachSlot
       \/ handleRemoveSlot
    /\ UNCHANGED appVars

SpecAttach == InitSlots /\ [][NextAttach]_vars

DistinctKeys(slots) ==
    \A i, j \in 1 .. Len(slots) : i # j => slots[i].key # slots[j].key

C24_NoOverlap ==
    \A i \in 1 .. Len(turns) - 1 : turns[i].end <= turns[i + 1].start

\* C25: when a commit that inserts nothing moves a boundary so that the sort
\* changes the order of the segments, every turn's intent and slots are, after
\* the commit, with the segment they were with before it (at its new
\* boundaries and its new position).
C25_MetadataFollowsSegment ==
    [][(last'.op = "commit" /\ ~last'.ins /\ last'.moved /\ last'.resorted)
       => LET updatedSegments == UpdateExisting(SegmentsOf(turns), mk)
          IN \A i \in 1 .. Len(turns) :
                \E j \in 1 .. Len(turns') :
                    turns'[j] = Turn(updatedSegments[i], turns[i].intent, turns[i].slots)]_vars

\* --------------------------------------------- dialogue-level slot editor
\* The dialogue-level SlotIntentContainer (App.tsx:685-707) is rendered by App
\* itself: its editor keeps its editing slots across the renders of App, and
\* its slots are currentAnnotation.dialogueSlots.
directoryVars == <<currentAnnotationId, conversations, currentIndex, annotations,
                   directoryHandle, showSaveDialog, notification, tasks, disk>>

\* part_002:81-103 in the dialogue-level editor
handleAddDialogueEditingSlot ==
    \E key \in SlotKeys :
        /\ ~(\E i \in 1 .. Len(dialogueSlots) : dialogueSlots[i].key = key)
        /\ key \notin dialogueEditingSlots
        /\ dialogueEditingSlots' = dialogueEditingSlots \cup {key}
        /\ last' = Other
        /\ UNCHANGED <<engineVars, directoryVars>>

\* App.tsx:690-697, the dialogue-level onSlotsUpdate: dialogueSlots takes the
\* list, App re-renders.
OnDialogueSlotsUpdate(newSlots) ==
    /\ dialogueSlots' = newSlots
    /\ tempStart' = None
    /\ tempEnd' = None
    /\ mk' = MarkersOf(turns)
    /\ editingSlots' = {}
    /\ UNCHANGED <<turns, currentTurnIndex, isAnnotationMode, hasUnsavedMarkerChanges,
                   directoryVars>>

\* part_002:113-143 in the dialogue-level editor
handleConfirmDialogueSlot ==
    \E key \in dialogueEditingSlots, value \in SlotVals :
        /\ OnDialogueSlotsUpdate(UpsertSlot(dialogueSlots, Slot(key, value)))
        /\ dialogueEditingSlots' = dialogueEditingSlots \ {key}
        /\ last' = Did("attachDialogueSlot")

\* part_002:160-181 with SlotIntentContainer.tsx:42-49 in the dialogue-level
\* editor
handleRemoveDialogueSlot ==
    \E slotIndex \in 0 .. Cardinality(SlotKeys) * Cardinality(SlotVals) - 1 :
        /\ slotIndex < Len(dialogueSlots)
        /\ OnDialogueSlotsUpdate(RemoveAt(dialogueSlots, slotIndex))
        /\ last' = Did("removeDialogueSlot")
        /\ UNCHANGED dialogueEditingSlots

NextDialogueSlots ==
    \/ (handleAddEditingSlot \/ handleConfirmSlot \/ handleRemoveSlot) /\ UNCHANGED appVars
    \/ handleAddDialogueEditingSlot
    \/ handleConfirmDialogueSlot
    \/ handleRemoveDialogueSlot

SpecDialogueSlots == InitSlots /\ [][NextDialogueSlots]_vars

InSomeTurn(slot) ==
    \E i \in 1 .. Len(turns) : \E j \in 1 .. Len(turns[i].slots) : turns[i].slots[j] = slot

\* C26: a (key, value) pair of dialogueSlots that no turn holds, which is one
\* added in the dialogue-level editor, is still in dialogueSlots after a slot
\* is attached to a turn or removed from a turn.
C26_DialogueOnlySlotsStay ==
    [][last'.op \in {"attachSlot", "removeSlot"} =>
          \A i \in 1 .. Len(dialogueSlots) :
              ~InSomeTurn(dialogueSlots[i]) =>
                  \E j \in 1 .. Len(dialogueSlots') : dialogueSlots'[j] = dialogueSlots[i]]_vars

\* C27: in the state a commit that inserted the provisional pair leaves, no
\* provisional marker is placed and the has-unsaved-marker-changes flag is
\* false, and a marker placement from that state places the start marker: the
\* pair is then a start without an end.
C27_CommitResetsToAwaitingStart ==
    [][(last.op = "commit" /\ last.ins)
       => /\ tempStart = None /\ tempEnd = None
          /\ ~hasUnsavedMarkerChanges
          /\ (handleClick \/ handleAddMarkerAtCurrentTime)
                => (tempStart' # None /\ tempEnd' = None /\ ~hasUnsavedMarkerChanges')]_vars

\* an inserting commit has ended in a state from which a marker can be placed
C27_Witness ==
    /\ last.op = "commit" /\ last.ins
    /\ isAnnotationMode /\ Len(turns) = 1

\* ------------------------------------------- selection across navigation
\* A navigation as the session that edits one conversation after another sees
\* it: handleNext or handlePrevious (App.tsx:190-210) has saved, set the index
\* and run loadConversation, which found for the target no annotation or a
\* persisted one. What it found is drawn from the annotations earlier sessions
\* saved; annotations and the files are not followed here.
navigateToConversation ==
    \E index \in 1 .. Len(conversations),
       found \in {<<>>} \cup {<<PersistedTurns(i)>> : i \in 1 .. MaxConversations} :
        /\ index - 1 # currentIndex
        /\ loadConversation(conversations[index],
                            IF found = <<>> THEN <<>>
                            ELSE <<Annotation(conversations[index], found[1],
                                              UniqueDialogueSlots(found[1]))>>)
        /\ currentIndex' = index - 1
        /\ last' = Event("loaded", index - 1)
        /\ UNCHANGED <<conversations, annotations, directoryHandle, showSaveDialog,
                       notification, tasks, disk, dialogueEditingSlots>>

NextSelection ==
    \/ navigateToConversation
    \/ /\ \/ toggleAnnotationMode
          \/ handleClick
          \/ handleConfirmMarkerPositions
          \/ handleMarkerSelect
          \/ handleMarkerDragStart
          \/ handleDeleteTurn
       /\ UNCHANGED appVars

SpecSelection == Init /\ [][NextSelection]_vars

\* C28: whenever the current annotation has a turn, the selected turn index is
\* the index of one of its turns.
C28_SelectionInRange ==
    Len(turns) > 0 => (currentTurnIndex >= 0 /\ currentTurnIndex < Len(turns))

\* a conversation with a persisted annotation was loaded while the selection
\* was at an index that annotation does not have
C28_Witness ==
    /\ last.op = "loaded"
    /\ Len(turns) > 0 /\ last.preSel >= Len(turns)

\* ------------------------------------------------ overlapping navigations
\* The navigation buttons are disabled by the index alone (App.tsx:830, 838):
\* a click while a handler waits starts another handler, with the index, the
\* annotation and the annotations of the render in which it was clicked. The
\* handlers followed here are navigations that overlap one another, the
\* handler of the directory selection having ended.
NavigateOverlapping(op, target) ==
    LET saving == currentAnnotationId # <<>> /\ directoryHandle
    IN /\ Len(tasks) < MaxInFlight
       /\ \A i \in 1 .. Len(tasks) : tasks[i].op # "open"
       /\ tasks' = Append(tasks,
                          Task(op, IF saving THEN "saving" ELSE "loading", target, annotations,
                               IF saving THEN <<CurrentAnnotation>> ELSE <<>>))
       /\ currentIndex' = IndexAfterClick(currentIndex, target, saving)
       /\ last' = Event(op, target)
       /\ UNCHANGED <<engineVars, dialogueEditingSlots, currentAnnotationId, conversations,
                      annotations, directoryHandle, showSaveDialog, notification, disk>>

\* App.tsx:190-199
handleNextOverlapping ==
    /\ currentIndex < Len(conversations) - 1
    /\ NavigateOverlapping("next", currentIndex + 1)

\* App.tsx:201-210
handlePreviousOverlapping ==
    /\ currentIndex > 0
    /\ NavigateOverlapping("previous", currentIndex - 1)

NextOverlap ==
    \/ handleDirectorySelect
    \/ handleNextOverlapping
    \/ handlePreviousOverlapping
    \/ autoSaveSucceeds
    \/ autoSaveFails
    \/ loadCompletes

SpecOverlap == InitClosed /\ [][NextOverlap]_vars

\* C29: when no navigation handler is waiting any more, the current
\* annotation is the one of the conversation at the current index.
C29_AnnotationIsOfCurrentIndex ==
    (tasks = <<>> /\ currentAnnotationId # <<>>)
        => currentAnnotationId[1] = conversations[currentIndex + 1]

\* C30: deleting a turn leaves dialogueSlots as it was, also when the turn
\* was the only one that held some (key, value) pair; attaching a slot to a
\* turn or removing one from a turn then makes dialogueSlots the distinct
\* pairs of the turns that are left.
C30_DeleteTurnKeepsDialogueSlots ==
    [][/\ last'.op = "delete" => dialogueSlots' = dialogueSlots
       /\ last'.op \in {"attachSlot", "removeSlot"}
             => dialogueSlots' = UniqueDialogueSlots(turns')]_vars

\* a deletion has left in dialogueSlots a pair that no turn holds
C30_Witness ==
    /\ last.op = "delete"
    /\ \E i \in 1 .. Len(dialogueSlots) : ~InSomeTurn(dialogueSlots[i])

====
